---- MODULE Spec2Model ----
(***************************************************************************)
(* A model of myicomfort/api.py: the Tstat client of the Lennox iComfort   *)
(* cloud API.  The client object is the record `self`; every method is an  *)
(* operator translated from its code, and every public call is one action. *)
(* The cloud service is the environment: each request gets a response      *)
(* drawn from a small set (a status code and, on 200, a JSON body).        *)
(*                                                                         *)
(* Numbers.  A JSON number of a response and a temperature handed to the   *)
(* set_points setter are modelled in tenths (70.5 is 705, the code 1 is    *)
(* 10); int() truncates to a whole number, float() keeps the value.  The   *)
(* integer fields of the object (state, op_mode, fan_mode, away_mode,      *)
(* temperature_units, system, zone) are whole numbers, its float fields    *)
(* (set points, temperature, humidity) are in tenths.                      *)
(*                                                                         *)
(* Python's None is the empty sequence and a value v that may be None is   *)
(* the one-element sequence <<v>>.                                         *)
(***************************************************************************)
EXTENDS Integers, Sequences, FiniteSets

VARIABLES
    self,      \* the Tstat object: its attributes
    pc,        \* position of the constructor; then "returned" when a call has
               \* just returned and "ready" when the caller can make the next
    reqs,      \* requests issued by the call, in order, each with the response
               \* it received
    op,        \* the call: its name and argument
    ret,       \* how the call ended: the exception raised, the value returned
    logged,    \* the warnings and errors the call logged, in order
    identity   \* status code of the GetSystemsInfo response (None before it)

vars == <<self, pc, reqs, op, ret, logged, identity>>

-----------------------------------------------------------------------------
(* Bounds of the model *)

\* longest Systems list of a GetSystemsInfo response
MaxSystems == 2
\* longest tStatInfo list of a GetTStatInfoList response
MaxZones == 2
\* largest system / zone index handed to the constructor
MaxIndex == 1

-----------------------------------------------------------------------------
(* Python values *)

None == <<>>
Some(v) == <<v>>
Val(o) == o[1]

\* list[i]: raises IndexError unless -len <= i < len
PyValid(list, i) == (0 - Len(list)) <= i /\ i < Len(list)
PyGet(list, i) == IF i >= 0 THEN list[i + 1] ELSE list[Len(list) + i + 1]

\* int(x) and float(x) of a JSON number given in tenths (x >= 0)
PyInt(x) == x \div 10
PyFloat(x) == x

PyMin(t) == CHOOSE x \in {t[i] : i \in DOMAIN t} : \A i \in DOMAIN t : x <= t[i]
PyMax(t) == CHOOSE x \in {t[i] : i \in DOMAIN t} : \A i \in DOMAIN t : x >= t[i]

SeqsUpTo(S, n) == UNION {[1..k -> S] : k \in 0..n}

-----------------------------------------------------------------------------
(* Module constants *)

OP_MODE_LIST == <<"Off", "Heat only", "Cool only", "Heat or Cool", "Emergency Heat">>
FAN_MODE_LIST == <<"Auto", "On", "Circulate">>
STATE_LIST == <<"Idle", "Heating", "Cooling", "System Waiting">>
\* chr(176) + 'F', chr(176) + 'C': the degree sign is written "deg"
TEMP_UNTIS_LIST == <<"degF", "degC">>

\* resp.status_code == 200
HTTP_OK == 200
\* resp.status_code == 401
HTTP_UNAUTHORIZED == 401

-----------------------------------------------------------------------------
(* The cloud service: what a request can be answered with *)

\* 500 stands for every status code the code does not tell apart
StatusCodes == {HTTP_OK, HTTP_UNAUTHORIZED, 500}
\* outside _get_serial_number the code only asks whether the code is 200
OtherStatusCodes == {HTTP_OK, 500}

Serials == {"SN1", "SN2"}

\* GetSystemsInfo: {"Systems": [{"Gateway_SN": ...}, ...]}
SystemsResponses ==
    {[status_code |-> HTTP_OK, Systems |-> l] :
        l \in SeqsUpTo([Gateway_SN : Serials], MaxSystems)}
    \cup {[status_code |-> c, Systems |-> <<>>] : c \in StatusCodes \ {HTTP_OK}}

\* two per-zone records of a GetTStatInfoList response, differing in every field
ZoneF ==
    [Pref_Temp_Units |-> 0, System_Status |-> 10, Operation_Mode |-> 10,
     Fan_Mode |-> 0, Away_Mode |-> 0, Indoor_Temp |-> 705,
     Indoor_Humidity |-> 400, Heat_Set_Point |-> 650, Cool_Set_Point |-> 720]
ZoneC ==
    [Pref_Temp_Units |-> 10, System_Status |-> 20, Operation_Mode |-> 20,
     Fan_Mode |-> 10, Away_Mode |-> 10, Indoor_Temp |-> 215,
     Indoor_Humidity |-> 455, Heat_Set_Point |-> 200, Cool_Set_Point |-> 240]
ZoneRecords == {ZoneF, ZoneC}

\* GetTStatInfoList: {"tStatInfo": [{per-zone fields}, ...]}
TStatInfoResponses ==
    {[status_code |-> HTTP_OK, tStatInfo |-> l] : l \in SeqsUpTo(ZoneRecords, MaxZones)}
    \cup {[status_code |-> c, tStatInfo |-> <<>>] : c \in OtherStatusCodes \ {HTTP_OK}}

\* SetTStatInfo and SetAwayModeNew: only the status code is read
PutResponses == {[status_code |-> c] : c \in OtherStatusCodes}

-----------------------------------------------------------------------------
(* What the caller can pass *)

\* the system and zone indexes handed to the constructor; Python counts a
\* negative index from the end of the list
Indexes == (0 - 1)..MaxIndex
\* units: 0 (F), 1 (C), anything else (9 is the default) follows the thermostat
UnitsArgs == {0, 1, 9}
OpModeArgs == 0..4
FanModeArgs == 0..2
AwayModeArgs == {0, 1}
\* temperatures handed to set_points, in tenths
Temperatures == {650, 720}
\* set_points takes a tuple of two values, a tuple of one value, or a number
SetPointsArgs ==
    {[type |-> "tuple", value |-> t] : t \in [1..2 -> Temperatures] \cup [1..1 -> Temperatures]}
    \cup {[type |-> "number", value |-> <<x>>] : x \in Temperatures}

-----------------------------------------------------------------------------
(* class Tstat *)

\* __init__ up to the first request: the attributes of a new object
Tstat(system, zone, units) ==
    [system |-> system,
     zone |-> zone,
     serial_number |-> None,
     temperature_units |-> IF units \in {0, 1} THEN units ELSE 0,
     use_tstat_units |-> units \notin {0, 1},
     heat_to |-> None,
     cool_to |-> None,
     away_mode |-> None,
     state |-> None,
     op_mode |-> None,
     fan_mode |-> None,
     current_temperature |-> None,
     current_humidity |-> None]

connected(s) == s.serial_number # None

\* what a call hands back: the object, the requests it issued, what it logged
\* and how it ended
Result(s, requests, log, raised, value) ==
    [self |-> s, reqs |-> requests, logged |-> log, raised |-> raised, value |-> value]

\* _LOGGER.warning and _LOGGER.error
Warning(msg) == [level |-> "warning", msg |-> msg]
Error(msg) == [level |-> "error", msg |-> msg]
NotResponding == Error("Thermostat cloud service not responding.")


\* _get_serial_number: the request it issues
get_serial_number_requests(s, resp) ==
    <<[url |-> "GetSystemsInfo", resp |-> resp]>>

\* (mutant) the IndexError handler switches to the first system and does not
\* select again
get_serial_number_no_retry(s, resp) ==
    IF resp.status_code = HTTP_OK
    THEN IF PyValid(resp.Systems, s.system)
         THEN [s EXCEPT !.serial_number =
                            Some(PyGet(resp.Systems, s.system).Gateway_SN)]
         ELSE [s EXCEPT !.system = 0]
    ELSE s

\* _get_serial_number: the object after the response
get_serial_number(s, resp) ==
    IF resp.status_code = HTTP_OK
    THEN IF PyValid(resp.Systems, s.system)
         THEN [s EXCEPT !.serial_number =
                            Some(PyGet(resp.Systems, s.system).Gateway_SN)]
         ELSE \* IndexError: switch to the first system, select once more
              IF PyValid(resp.Systems, 0)
              THEN [s EXCEPT !.system = 0,
                             !.serial_number = Some(PyGet(resp.Systems, 0).Gateway_SN)]
              ELSE [s EXCEPT !.system = 0]
    ELSE s

\* _get_serial_number: what it logs
get_serial_number_log(s, resp) ==
    IF resp.status_code = HTTP_OK
    THEN IF PyValid(resp.Systems, s.system)
         THEN <<>>
         ELSE <<Warning("Specfied system not found. Switching to first system")>>
              \o IF PyValid(resp.Systems, 0) THEN <<>> ELSE <<Error("No Systems Found.")>>
    ELSE IF resp.status_code = HTTP_UNAUTHORIZED
         THEN <<Error("Username or password incorrect.")>>
         ELSE <<NotResponding>>

\* pull_status: the request it issues
pull_status_requests(s, resp) ==
    IF s.serial_number # None
    THEN <<[url |-> "GetTStatInfoList", gatewaysn |-> Val(s.serial_number),
            TempUnit |-> s.temperature_units, resp |-> resp]>>
    ELSE <<>>

\* (mutant) the switch to the first zone is not limited to the initial pull
pull_status_zone_any_pull(s, initial, resp) ==
    IF resp.status_code = HTTP_OK /\ ~PyValid(resp.tStatInfo, s.zone)
    THEN 0
    ELSE s.zone

\* (mutant) the initial pull switches to the first zone whenever it has no
\* record, a response without a body included
pull_status_zone_any_response(s, initial, resp) ==
    IF ~PyValid(resp.tStatInfo, s.zone) /\ initial
    THEN 0
    ELSE s.zone

\* pull_status: the zone index after the selection of the record
pull_status_zone(s, initial, resp) ==
    IF resp.status_code = HTTP_OK /\ ~PyValid(resp.tStatInfo, s.zone) /\ initial
    THEN 0
    ELSE s.zone

\* pull_status: stat_info, the record selected (None when there is none)
pull_status_stat_info(s, initial, resp) ==
    IF resp.status_code = HTTP_OK
    THEN IF PyValid(resp.tStatInfo, s.zone)
         THEN Some(PyGet(resp.tStatInfo, s.zone))
         ELSE IF initial /\ PyValid(resp.tStatInfo, 0)
              THEN Some(PyGet(resp.tStatInfo, 0))
              ELSE None
    ELSE None

\* pull_status: what it logs
pull_status_log(s, initial, resp) ==
    IF s.serial_number # None
    THEN IF resp.status_code = HTTP_OK
         THEN IF PyValid(resp.tStatInfo, s.zone)
              THEN <<>>
              ELSE IF initial
                   THEN <<Warning("Specfied zone doesn't exist. Switching to first zone.")>>
                        \o IF PyValid(resp.tStatInfo, 0)
                           THEN <<>>
                           ELSE <<Error("No Zones Found.")>>
                   ELSE <<Error("Problem pulling zone data")>>
         ELSE <<NotResponding>>
    ELSE <<>>

\* (mutant) the units of the thermostat are never taken over
pull_status_load_keeps_units(s, stat_info) ==
    [s EXCEPT
        !.state = Some(PyInt(stat_info.System_Status)),
        !.op_mode = Some(PyInt(stat_info.Operation_Mode)),
        !.fan_mode = Some(PyInt(stat_info.Fan_Mode)),
        !.away_mode = Some(PyInt(stat_info.Away_Mode)),
        !.current_temperature = Some(PyFloat(stat_info.Indoor_Temp)),
        !.current_humidity = Some(PyFloat(stat_info.Indoor_Humidity)),
        !.heat_to = Some(PyFloat(stat_info.Heat_Set_Point)),
        !.cool_to = Some(PyFloat(stat_info.Cool_Set_Point))]

\* (mutant) the units of the thermostat are taken over in every mode
pull_status_load_always_units(s, stat_info) ==
    [s EXCEPT
        !.temperature_units = PyInt(stat_info.Pref_Temp_Units),
        !.state = Some(PyInt(stat_info.System_Status)),
        !.op_mode = Some(PyInt(stat_info.Operation_Mode)),
        !.fan_mode = Some(PyInt(stat_info.Fan_Mode)),
        !.away_mode = Some(PyInt(stat_info.Away_Mode)),
        !.current_temperature = Some(PyFloat(stat_info.Indoor_Temp)),
        !.current_humidity = Some(PyFloat(stat_info.Indoor_Humidity)),
        !.heat_to = Some(PyFloat(stat_info.Heat_Set_Point)),
        !.cool_to = Some(PyFloat(stat_info.Cool_Set_Point))]

\* pull_status: the attributes loaded from stat_info
pull_status_load(s, stat_info) ==
    [s EXCEPT
        !.temperature_units = IF s.use_tstat_units
                              THEN PyInt(stat_info.Pref_Temp_Units)
                              ELSE @,
        !.state = Some(PyInt(stat_info.System_Status)),
        !.op_mode = Some(PyInt(stat_info.Operation_Mode)),
        !.fan_mode = Some(PyInt(stat_info.Fan_Mode)),
        !.away_mode = Some(PyInt(stat_info.Away_Mode)),
        !.current_temperature = Some(PyFloat(stat_info.Indoor_Temp)),
        !.current_humidity = Some(PyFloat(stat_info.Indoor_Humidity)),
        !.heat_to = Some(PyFloat(stat_info.Heat_Set_Point)),
        !.cool_to = Some(PyFloat(stat_info.Cool_Set_Point))]

\* (mutant) an initial pull that finds no zone at all drops the serial number
pull_status_no_zone_disconnects(s, initial, resp) ==
    IF s.serial_number # None
    THEN LET s1 == [s EXCEPT !.zone = pull_status_zone(s, initial, resp)]
             stat_info == pull_status_stat_info(s, initial, resp)
         IN  IF stat_info # None
             THEN pull_status_load(s1, Val(stat_info))
             ELSE IF initial /\ resp.status_code = HTTP_OK
                  THEN [s1 EXCEPT !.serial_number = None]
                  ELSE s1
    ELSE s

\* pull_status: the object after the response
pull_status(s, initial, resp) ==
    IF s.serial_number # None
    THEN LET s1 == [s EXCEPT !.zone = pull_status_zone(s, initial, resp)]
             stat_info == pull_status_stat_info(s, initial, resp)
         IN  IF stat_info # None THEN pull_status_load(s1, Val(stat_info)) ELSE s1
    ELSE s

\* (mutant) the payload names the first zone, not the zone in use
push_settings_first_zone(s, resp) ==
    IF s.serial_number # None
    THEN <<[url |-> "SetTStatInfo",
            data |-> [Cool_Set_Point |-> s.cool_to,
                      Heat_Set_Point |-> s.heat_to,
                      Fan_Mode |-> s.fan_mode,
                      Operation_Mode |-> s.op_mode,
                      Pref_Temp_Units |-> s.temperature_units,
                      Zone_Number |-> 0,
                      GatewaySN |-> Val(s.serial_number)],
            resp |-> resp]>>
    ELSE <<>>

\* (mutant) no test of the serial number before the request
push_settings_unguarded(s, resp) ==
    <<[url |-> "SetTStatInfo",
       data |-> [Cool_Set_Point |-> s.cool_to,
                 Heat_Set_Point |-> s.heat_to,
                 Fan_Mode |-> s.fan_mode,
                 Operation_Mode |-> s.op_mode,
                 Pref_Temp_Units |-> s.temperature_units,
                 Zone_Number |-> s.zone,
                 GatewaySN |-> s.serial_number],
       resp |-> resp]>>

\* _push_settings: the request it issues; the object is left as it is
push_settings(s, resp) ==
    IF s.serial_number # None
    THEN <<[url |-> "SetTStatInfo",
            data |-> [Cool_Set_Point |-> s.cool_to,
                      Heat_Set_Point |-> s.heat_to,
                      Fan_Mode |-> s.fan_mode,
                      Operation_Mode |-> s.op_mode,
                      Pref_Temp_Units |-> s.temperature_units,
                      Zone_Number |-> s.zone,
                      GatewaySN |-> Val(s.serial_number)],
            resp |-> resp]>>
    ELSE <<>>

\* _push_settings: what it logs
push_settings_log(s, resp) ==
    IF s.serial_number # None /\ resp.status_code # HTTP_OK
    THEN <<NotResponding>>
    ELSE <<>>

\* (mutant) the new units are pushed to the thermostat as well
temperature_units_setter_push(s, value, resp) ==
    IF value \in {0, 1}
    THEN LET s1 == [s EXCEPT !.temperature_units = value, !.use_tstat_units = FALSE]
         IN  Result(pull_status(s1, FALSE, resp),
                    push_settings(s1, [status_code |-> HTTP_OK])
                        \o pull_status_requests(s1, resp),
                    pull_status_log(s1, FALSE, resp), None, None)
    ELSE Result(s, <<>>, <<>>, None, None)

\* (mutant) every value is taken as units
temperature_units_setter_any_value(s, value, resp) ==
    LET s1 == [s EXCEPT !.temperature_units = value, !.use_tstat_units = FALSE]
    IN  Result(pull_status(s1, FALSE, resp), pull_status_requests(s1, resp),
               pull_status_log(s1, FALSE, resp), None, None)

\* temperature_units setter
temperature_units_setter(s, value, resp) ==
    IF value \in {0, 1}
    THEN LET s1 == [s EXCEPT !.temperature_units = value, !.use_tstat_units = FALSE]
         IN  Result(pull_status(s1, FALSE, resp), pull_status_requests(s1, resp),
                    pull_status_log(s1, FALSE, resp), None, None)
    ELSE Result(s, <<>>, <<>>, None, None)

\* (mutant) the assignment is undone when the push is not answered with 200
op_mode_setter_rollback(s, value, resp) ==
    LET s1 == [s EXCEPT !.op_mode = Some(value)]
    IN  Result(IF resp.status_code = HTTP_OK THEN s1 ELSE s,
               push_settings(s1, resp), push_settings_log(s1, resp), None, None)

\* (mutant) the assignment is made only with a serial number
op_mode_setter_connected_only(s, value, resp) ==
    LET s1 == IF s.serial_number # None THEN [s EXCEPT !.op_mode = Some(value)] ELSE s
    IN  Result(s1, push_settings(s1, resp), push_settings_log(s1, resp), None, None)

\* op_mode setter
op_mode_setter(s, value, resp) ==
    LET s1 == [s EXCEPT !.op_mode = Some(value)]
    IN  Result(s1, push_settings(s1, resp), push_settings_log(s1, resp), None, None)

\* fan_mode setter
fan_mode_setter(s, value, resp) ==
    LET s1 == [s EXCEPT !.fan_mode = Some(value)]
    IN  Result(s1, push_settings(s1, resp), push_settings_log(s1, resp), None, None)

\* (mutant) the pair is taken in the order given
set_points_assign_unsorted(s, arg) ==
    IF arg.type = "tuple"
    THEN IF Len(arg.value) = 2
         THEN [s EXCEPT !.heat_to = Some(arg.value[1]),
                        !.cool_to = Some(arg.value[2])]
         ELSE IF s.op_mode = Some(2)
              THEN [s EXCEPT !.cool_to = Some(PyMax(arg.value))]
              ELSE IF s.op_mode \in {Some(1), Some(4)}
                   THEN [s EXCEPT !.heat_to = Some(PyMin(arg.value))]
                   ELSE s
    ELSE IF s.op_mode = Some(2)
         THEN [s EXCEPT !.cool_to = Some(arg.value[1])]
         ELSE IF s.op_mode \in {Some(1), Some(4)}
              THEN [s EXCEPT !.heat_to = Some(arg.value[1])]
              ELSE s

\* (mutant) emergency heat (4) is not taken as a heating mode
set_points_assign_heat_only(s, arg) ==
    IF arg.type = "tuple"
    THEN IF Len(arg.value) = 2
         THEN [s EXCEPT !.heat_to = Some(PyMin(arg.value)),
                        !.cool_to = Some(PyMax(arg.value))]
         ELSE IF s.op_mode = Some(2)
              THEN [s EXCEPT !.cool_to = Some(PyMax(arg.value))]
              ELSE IF s.op_mode = Some(1)
                   THEN [s EXCEPT !.heat_to = Some(PyMin(arg.value))]
                   ELSE s
    ELSE IF s.op_mode = Some(2)
         THEN [s EXCEPT !.cool_to = Some(arg.value[1])]
         ELSE IF s.op_mode = Some(1)
              THEN [s EXCEPT !.heat_to = Some(arg.value[1])]
              ELSE s

\* (mutant) a single value that would cross the other set point is dropped
set_points_assign_validated(s, arg) ==
    IF arg.type = "tuple" /\ Len(arg.value) = 2
    THEN [s EXCEPT !.heat_to = Some(PyMin(arg.value)),
                   !.cool_to = Some(PyMax(arg.value))]
    ELSE IF s.op_mode = Some(2)
         THEN IF s.heat_to # None /\ arg.value[1] < Val(s.heat_to)
              THEN s
              ELSE [s EXCEPT !.cool_to = Some(arg.value[1])]
         ELSE IF s.op_mode \in {Some(1), Some(4)}
              THEN IF s.cool_to # None /\ arg.value[1] > Val(s.cool_to)
                   THEN s
                   ELSE [s EXCEPT !.heat_to = Some(arg.value[1])]
              ELSE s

\* set_points setter: the local assignment
set_points_assign(s, arg) ==
    IF arg.type = "tuple"
    THEN IF Len(arg.value) = 2
         THEN [s EXCEPT !.heat_to = Some(PyMin(arg.value)),
                        !.cool_to = Some(PyMax(arg.value))]
         ELSE IF s.op_mode = Some(2)
              THEN [s EXCEPT !.cool_to = Some(PyMax(arg.value))]
              ELSE IF s.op_mode \in {Some(1), Some(4)}
                   THEN [s EXCEPT !.heat_to = Some(PyMin(arg.value))]
                   ELSE s
    ELSE \* a float or an int
         IF s.op_mode = Some(2)
         THEN [s EXCEPT !.cool_to = Some(arg.value[1])]
         ELSE IF s.op_mode \in {Some(1), Some(4)}
              THEN [s EXCEPT !.heat_to = Some(arg.value[1])]
              ELSE s

\* (mutant) the push is skipped when the assignment changed nothing
set_points_setter_push_on_change(s, arg, resp) ==
    LET s1 == set_points_assign(s, arg)
    IN  IF s1 = s
        THEN Result(s1, <<>>, <<>>, None, None)
        ELSE Result(s1, push_settings(s1, resp), push_settings_log(s1, resp), None, None)

\* set_points setter
set_points_setter(s, arg, resp) ==
    LET s1 == set_points_assign(s, arg)
    IN  Result(s1, push_settings(s1, resp), push_settings_log(s1, resp), None, None)

\* (mutant) the value is stored in the object as well
away_mode_setter_stores(s, value, resp) ==
    IF s.serial_number # None
    THEN Result([s EXCEPT !.away_mode = Some(value)],
                <<[url |-> "SetAwayModeNew", gatewaysn |-> Val(s.serial_number),
                   awaymode |-> value, resp |-> resp]>>,
                IF resp.status_code = HTTP_OK THEN <<>> ELSE <<NotResponding>>,
                None, None)
    ELSE Result([s EXCEPT !.away_mode = Some(value)], <<>>, <<>>, None, None)

\* away_mode setter
away_mode_setter(s, value, resp) ==
    IF s.serial_number # None
    THEN Result(s,
                <<[url |-> "SetAwayModeNew", gatewaysn |-> Val(s.serial_number),
                   awaymode |-> value, resp |-> resp]>>,
                IF resp.status_code = HTTP_OK THEN <<>> ELSE <<NotResponding>>,
                None, None)
    ELSE Result(s, <<>>, <<>>, None, None)

\* list[index] of get_json: the exception it raises, None when it raises none
Subscript(list, index) ==
    IF index = None THEN Some("TypeError")
    ELSE IF ~PyValid(list, Val(index)) THEN Some("IndexError")
    ELSE None

\* get_json: the OrderedDict it serialises
get_json_data(s) ==
    [serial_number |-> s.serial_number,
     state |-> s.state,
     state_text |-> PyGet(STATE_LIST, Val(s.state)),
     op_mode |-> s.op_mode,
     op_mode_text |-> PyGet(OP_MODE_LIST, Val(s.op_mode)),
     fan_mode |-> s.fan_mode,
     fan_mode_text |-> PyGet(FAN_MODE_LIST, Val(s.fan_mode)),
     away_mode |-> s.away_mode,
     temperature_units |-> s.temperature_units,
     temperature_units_text |-> PyGet(TEMP_UNTIS_LIST, s.temperature_units),
     current_temperature |-> s.current_temperature,
     current_humidity |-> s.current_humidity,
     heat_to |-> s.heat_to,
     cool_to |-> s.cool_to]

\* get_json: the first exception of its subscripts, in the order of the code
get_json_raises(s) ==
    IF Subscript(STATE_LIST, s.state) # None THEN Subscript(STATE_LIST, s.state)
    ELSE IF Subscript(OP_MODE_LIST, s.op_mode) # None
         THEN Subscript(OP_MODE_LIST, s.op_mode)
    ELSE IF Subscript(FAN_MODE_LIST, s.fan_mode) # None
         THEN Subscript(FAN_MODE_LIST, s.fan_mode)
    ELSE Subscript(TEMP_UNTIS_LIST, Some(s.temperature_units))

\* (mutant) the fields are read before pull_status is called
get_json_reads_first(s, resp) ==
    LET s1 == pull_status(s, FALSE, resp)
        requests == pull_status_requests(s, resp)
        log == pull_status_log(s, FALSE, resp)
    IN  IF get_json_raises(s) # None
        THEN Result(s1, requests, log, get_json_raises(s), None)
        ELSE Result(s1, requests, log, None, Some(get_json_data(s)))

\* get_json
get_json(s, resp) ==
    LET s1 == pull_status(s, FALSE, resp)
        requests == pull_status_requests(s, resp)
        log == pull_status_log(s, FALSE, resp)
    IN  IF get_json_raises(s1) # None
        THEN Result(s1, requests, log, get_json_raises(s1), None)
        ELSE Result(s1, requests, log, None, Some(get_json_data(s1)))

-----------------------------------------------------------------------------
(* The state machine *)

\* the object before __init__ issues its first request
Init ==
    /\ \E system \in Indexes, zone \in Indexes, units \in UnitsArgs :
          /\ self = Tstat(system, zone, units)
          /\ op = [name |-> "__init__",
                   arg |-> Some([system |-> system, zone |-> zone, units |-> units])]
    /\ pc = "get_serial_number"
    /\ reqs = <<>>
    /\ logged = <<>>
    /\ ret = [raised |-> None, value |-> None]
    /\ identity = None

\* __init__: self._get_serial_number()
GetSerialNumber ==
    /\ pc = "get_serial_number"
    /\ \E resp \in SystemsResponses :
          /\ self' = get_serial_number(self, resp)
          /\ reqs' = reqs \o get_serial_number_requests(self, resp)
          /\ logged' = logged \o get_serial_number_log(self, resp)
          /\ identity' = Some(resp.status_code)
    /\ pc' = "pull_status_initial"
    /\ UNCHANGED <<op, ret>>

\* __init__: self.pull_status(True)
InitialPull ==
    /\ pc = "pull_status_initial"
    /\ \E resp \in TStatInfoResponses :
          /\ self' = pull_status(self, TRUE, resp)
          /\ reqs' = reqs \o pull_status_requests(self, resp)
          /\ logged' = logged \o pull_status_log(self, TRUE, resp)
    /\ pc' = IF self.use_tstat_units THEN "pull_status_units" ELSE "returned"
    /\ UNCHANGED <<op, ret, identity>>

\* __init__: if self._use_tstat_units: self.pull_status()
UnitsPull ==
    /\ pc = "pull_status_units"
    /\ \E resp \in TStatInfoResponses :
          /\ self' = pull_status(self, FALSE, resp)
          /\ reqs' = reqs \o pull_status_requests(self, resp)
          /\ logged' = logged \o pull_status_log(self, FALSE, resp)
    /\ pc' = "returned"
    /\ UNCHANGED <<op, ret, identity>>

\* a call of the constructed object: the whole call is one step
Call(name, arg, result) ==
    /\ pc = "ready"
    /\ self' = result.self
    /\ reqs' = result.reqs
    /\ logged' = result.logged
    /\ op' = [name |-> name, arg |-> arg]
    /\ ret' = [raised |-> result.raised, value |-> result.value]
    /\ pc' = "returned"
    /\ UNCHANGED identity

\* the caller has the outcome of the call and can make the next one
Return ==
    /\ pc = "returned"
    /\ pc' = "ready"
    /\ reqs' = <<>>
    /\ logged' = <<>>
    /\ op' = [name |-> "", arg |-> None]
    /\ ret' = [raised |-> None, value |-> None]
    /\ UNCHANGED <<self, identity>>

PullStatus ==
    \E resp \in TStatInfoResponses :
        Call("pull_status", None,
             Result(pull_status(self, FALSE, resp), pull_status_requests(self, resp),
                    pull_status_log(self, FALSE, resp), None, None))

SetTemperatureUnits ==
    \E value \in UnitsArgs, resp \in TStatInfoResponses :
        Call("temperature_units", Some(value), temperature_units_setter(self, value, resp))

SetOpMode ==
    \E value \in OpModeArgs, resp \in PutResponses :
        Call("op_mode", Some(value), op_mode_setter(self, value, resp))

SetFanMode ==
    \E value \in FanModeArgs, resp \in PutResponses :
        Call("fan_mode", Some(value), fan_mode_setter(self, value, resp))

SetPoints ==
    \E arg \in SetPointsArgs, resp \in PutResponses :
        Call("set_points", Some(arg), set_points_setter(self, arg, resp))

SetAwayMode ==
    \E value \in AwayModeArgs, resp \in PutResponses :
        Call("away_mode", Some(value), away_mode_setter(self, value, resp))

GetJson ==
    \E resp \in TStatInfoResponses :
        Call("get_json", None, get_json(self, resp))

Next ==
    \/ GetSerialNumber
    \/ InitialPull
    \/ UnitsPull
    \/ PullStatus
    \/ SetTemperatureUnits
    \/ SetOpMode
    \/ SetFanMode
    \/ SetPoints
    \/ SetAwayMode
    \/ GetJson
    \/ Return

Spec == Init /\ [][Next]_vars

-----------------------------------------------------------------------------
(* Vocabulary of the properties *)

\* the index i selects an item of the list; the item it selects
InRange(list, i) == (0 - Len(list)) <= i /\ i < Len(list)
ItemAt(list, i) == IF i >= 0 THEN list[i + 1] ELSE list[Len(list) + i + 1]

\* the arguments the constructor was called with
Args == Val(op.arg)

\* the snapshot of s is the record rec of a response
Loaded(s, rec) ==
    /\ s.state = <<rec.System_Status \div 10>>
    /\ s.op_mode = <<rec.Operation_Mode \div 10>>
    /\ s.fan_mode = <<rec.Fan_Mode \div 10>>
    /\ s.away_mode = <<rec.Away_Mode \div 10>>
    /\ s.current_temperature = <<rec.Indoor_Temp>>
    /\ s.current_humidity = <<rec.Indoor_Humidity>>
    /\ s.heat_to = <<rec.Heat_Set_Point>>
    /\ s.cool_to = <<rec.Cool_Set_Point>>

\* s and t hold the same snapshot
SameSnapshot(s, t) ==
    /\ s.state = t.state
    /\ s.op_mode = t.op_mode
    /\ s.fan_mode = t.fan_mode
    /\ s.away_mode = t.away_mode
    /\ s.current_temperature = t.current_temperature
    /\ s.current_humidity = t.current_humidity
    /\ s.heat_to = t.heat_to
    /\ s.cool_to = t.cool_to

\* the request at position i of the call is of this kind
IsPull(r) == r.url = "GetTStatInfoList"
IsPush(r) == r.url = "SetTStatInfo"

-----------------------------------------------------------------------------
(* C1 *)

\* C1: identity resolution on a success response.  When the configured system
\* index selects an item of the Systems list, the serial number is the
\* Gateway_SN of that item and the system index is unchanged; otherwise the
\* system index is 0 and the serial number is the Gateway_SN of the first item,
\* or None when the list is empty.  One GetSystemsInfo request was issued.
C1_IdentityResolution ==
    (pc = "pull_status_initial" /\ identity = Some(HTTP_OK)) =>
        LET systems == reqs[1].resp.Systems
        IN  /\ Len(reqs) = 1
            /\ reqs[1].url = "GetSystemsInfo"
            /\ InRange(systems, Args.system) =>
                  /\ self.system = Args.system
                  /\ self.serial_number = <<ItemAt(systems, Args.system).Gateway_SN>>
            /\ ~InRange(systems, Args.system) =>
                  /\ self.system = 0
                  /\ systems # <<>> => self.serial_number = <<systems[1].Gateway_SN>>
                  /\ systems = <<>> => self.serial_number = None

\* the fallback happened: index 1 of a one-item list
C1_Witness ==
    /\ pc = "pull_status_initial"
    /\ identity = Some(HTTP_OK)
    /\ Args.system = 1
    /\ Len(reqs[1].resp.Systems) = 1
    /\ self.system = 0
    /\ self.serial_number = <<"SN2">>

-----------------------------------------------------------------------------
(* C2 *)

\* C2: pull_status on a success response, for the pulls of the constructor and
\* the caller's own.  When the zone index selects a record of the tStatInfo
\* list, the zone index is kept and the snapshot is that record.  Otherwise, on
\* the initial pull the zone index becomes 0 and the first record of the same
\* response is loaded (nothing is loaded from an empty list); on any other pull
\* the whole object, zone index and snapshot included, is left as it was and an
\* error is logged.  The pull issued one request.
C2_PullStatus ==
    [][ ( /\ connected(self)
          /\ \/ pc \in {"pull_status_initial", "pull_status_units"}
             \/ pc = "ready" /\ op'.name = "pull_status"
          /\ reqs'[Len(reqs')].resp.status_code = HTTP_OK ) =>
        LET list == reqs'[Len(reqs')].resp.tStatInfo
            initial == pc = "pull_status_initial"
        IN  /\ IsPull(reqs'[Len(reqs')])
            /\ Len(reqs') = (IF pc = "ready" THEN 0 ELSE Len(reqs)) + 1
            /\ InRange(list, self.zone) =>
                  /\ self'.zone = self.zone
                  /\ Loaded(self', ItemAt(list, self.zone))
            /\ (~InRange(list, self.zone) /\ initial) =>
                  /\ self'.zone = 0
                  /\ list # <<>> => Loaded(self', list[1])
                  /\ list = <<>> => SameSnapshot(self', self)
            /\ (~InRange(list, self.zone) /\ ~initial) =>
                  /\ self' = self
                  /\ logged'[Len(logged')] =
                        [level |-> "error", msg |-> "Problem pulling zone data"]
      ]_vars

\* a later pull finds one record where the zone index is 1: the snapshot loaded
\* before stays
C2_Witness ==
    /\ pc = "returned"
    /\ op.name = "pull_status"
    /\ Len(reqs) = 1
    /\ reqs[1].resp.status_code = HTTP_OK
    /\ Len(reqs[1].resp.tStatInfo) = 1
    /\ self.zone = 1
    /\ self.state # None
    /\ ~Loaded(self, reqs[1].resp.tStatInfo[1])
    /\ logged = <<[level |-> "error", msg |-> "Problem pulling zone data"]>>

-----------------------------------------------------------------------------
(* C3 *)

\* C3: after a 401 response to GetSystemsInfo the client is not connected and
\* the identity request is the only request there ever is: the constructor
\* issues no pull and no later call issues a request.
C3_UnauthorizedNoRequests ==
    identity = Some(HTTP_UNAUTHORIZED) =>
        /\ ~connected(self)
        /\ IF op.name = "__init__"
           THEN reqs = <<[url |-> "GetSystemsInfo",
                          resp |-> [status_code |-> HTTP_UNAUTHORIZED, Systems |-> <<>>]]>>
           ELSE reqs = <<>>

\* a set-point update has returned on a client that was refused
C3_Witness ==
    /\ identity = Some(HTTP_UNAUTHORIZED)
    /\ pc = "returned"
    /\ op.name = "set_points"
    /\ self.heat_to = <<650>>

-----------------------------------------------------------------------------
(* C4 *)

\* the exported fields are those of the record rec of a response
ExportOfRecord(data, rec) ==
    /\ data.state = <<rec.System_Status \div 10>>
    /\ data.op_mode = <<rec.Operation_Mode \div 10>>
    /\ data.fan_mode = <<rec.Fan_Mode \div 10>>
    /\ data.away_mode = <<rec.Away_Mode \div 10>>
    /\ data.current_temperature = <<rec.Indoor_Temp>>
    /\ data.current_humidity = <<rec.Indoor_Humidity>>
    /\ data.heat_to = <<rec.Heat_Set_Point>>
    /\ data.cool_to = <<rec.Cool_Set_Point>>

\* the exported fields are those of the snapshot of s
ExportOfSnapshot(data, s) ==
    /\ data.state = s.state
    /\ data.op_mode = s.op_mode
    /\ data.fan_mode = s.fan_mode
    /\ data.away_mode = s.away_mode
    /\ data.current_temperature = s.current_temperature
    /\ data.current_humidity = s.current_humidity
    /\ data.heat_to = s.heat_to
    /\ data.cool_to = s.cool_to

\* C4 as stated: whatever get_json returns is the record of the selected zone
\* in a response received within the call, for every state and every response.
C4_ExportNeverStale ==
    (pc = "returned" /\ op.name = "get_json" /\ ret.raised = None) =>
        /\ ret.value # None
        /\ Len(reqs) = 1
        /\ IsPull(reqs[1])
        /\ reqs[1].resp.status_code = HTTP_OK
        /\ InRange(reqs[1].resp.tStatInfo, self.zone)
        /\ ExportOfRecord(Val(ret.value), ItemAt(reqs[1].resp.tStatInfo, self.zone))

\* C4 (amended): get_json calls pull_status before it reads a field: one
\* GetTStatInfoList request on a resolved identity, none otherwise.  When that
\* request is answered with 200 and a list that has a record at the zone index,
\* the snapshot and the exported fields are that record.  In every other case
\* the object is left as it was and the export, when the call returns one,
\* carries the snapshot held before the call.
C4_ExportAfterPull ==
    [][ (pc = "ready" /\ op'.name = "get_json") =>
        /\ connected(self) =>
              /\ Len(reqs') = 1
              /\ IsPull(reqs'[1])
              /\ reqs'[1].gatewaysn = Val(self.serial_number)
              /\ reqs'[1].TempUnit = self.temperature_units
        /\ ~connected(self) => reqs' = <<>>
        /\ IF /\ connected(self)
              /\ reqs'[1].resp.status_code = HTTP_OK
              /\ InRange(reqs'[1].resp.tStatInfo, self.zone)
           THEN LET rec == ItemAt(reqs'[1].resp.tStatInfo, self.zone)
                IN  /\ Loaded(self', rec)
                    /\ ret'.raised = None
                    /\ ret'.value # None
                    /\ ExportOfRecord(Val(ret'.value), rec)
           ELSE /\ self' = self
                /\ ret'.value # None => ExportOfSnapshot(Val(ret'.value), self)
      ]_vars

\* an export of a changed local mode after a pull that was answered with 500
C4_Witness ==
    /\ pc = "returned"
    /\ op.name = "get_json"
    /\ Len(reqs) = 1
    /\ reqs[1].resp.status_code # HTTP_OK
    /\ ret.value # None
    /\ Val(ret.value).op_mode = <<3>>
    /\ Val(ret.value).op_mode_text = "Heat or Cool"

-----------------------------------------------------------------------------
(* C5 *)

\* C5: no call raises an exception to the caller.
C5_NoExceptionRaised ==
    ret.raised = None

-----------------------------------------------------------------------------
(* C6 *)

\* C6: after a set-point update with a pair (a, b), heat_to is the smaller and
\* cool_to the larger of a and b, so heat_to <= cool_to, in every operating
\* mode (None included), whatever the set points were and whether or not the
\* client is connected.
C6_PairIsSorted ==
    (pc = "returned" /\ op.name = "set_points" /\ Len(Val(op.arg).value) = 2) =>
        LET a == Val(op.arg).value[1]
            b == Val(op.arg).value[2]
        IN  /\ self.heat_to = <<IF a <= b THEN a ELSE b>>
            /\ self.cool_to = <<IF a <= b THEN b ELSE a>>
            /\ Val(self.heat_to) <= Val(self.cool_to)

\* the pair (72.0, 65.0), larger value first, in cool only mode
C6_Witness ==
    /\ pc = "returned"
    /\ op.name = "set_points"
    /\ Val(op.arg).value = <<720, 650>>
    /\ self.op_mode = <<2>>
    /\ self.heat_to = <<650>>
    /\ self.cool_to = <<720>>

-----------------------------------------------------------------------------
(* C7 *)

\* C7: a set-point update with one value v (a number, or a tuple of one value)
\* assigns cool_to alone in mode 2, heat_to alone in modes 1 and 4, and nothing
\* in any other mode (0, 3, None); every other attribute is left as it was.
C7_SingleValueByMode ==
    [][ (pc = "ready" /\ op'.name = "set_points" /\ Len(Val(op'.arg).value) = 1) =>
        LET v == Val(op'.arg).value[1]
        IN  /\ self.op_mode = <<2>> => self' = [self EXCEPT !.cool_to = <<v>>]
            /\ self.op_mode \in {<<1>>, <<4>>} => self' = [self EXCEPT !.heat_to = <<v>>]
            /\ self.op_mode \notin {<<1>>, <<2>>, <<4>>} => self' = self
      ]_vars

\* 65.0 in emergency heat mode, over the set points 20.0 and 24.0 of the record
C7_Witness ==
    /\ pc = "returned"
    /\ op.name = "set_points"
    /\ Val(op.arg) = [type |-> "number", value |-> <<650>>]
    /\ self.op_mode = <<4>>
    /\ self.heat_to = <<650>>
    /\ self.cool_to = <<240>>

-----------------------------------------------------------------------------
(* C8 *)

\* C8: on a connected client a call of the op_mode, fan_mode or set_points
\* setter issues one request, a SetTStatInfo whose data are the attributes
\* after the assignment, and no GetTStatInfoList; the object differs from the
\* one before the call in the assigned attribute alone.
C8_OnePushNoPull ==
    [][ ( /\ pc = "ready"
          /\ connected(self)
          /\ op'.name \in {"op_mode", "fan_mode", "set_points"} ) =>
        /\ Len(reqs') = 1
        /\ IsPush(reqs'[1])
        /\ reqs'[1].data.Operation_Mode = self'.op_mode
        /\ reqs'[1].data.Fan_Mode = self'.fan_mode
        /\ reqs'[1].data.Heat_Set_Point = self'.heat_to
        /\ reqs'[1].data.Cool_Set_Point = self'.cool_to
        /\ op'.name = "op_mode" => self' = [self EXCEPT !.op_mode = op'.arg]
        /\ op'.name = "fan_mode" => self' = [self EXCEPT !.fan_mode = op'.arg]
        /\ op'.name = "set_points" =>
              self' = [self EXCEPT !.heat_to = self'.heat_to, !.cool_to = self'.cool_to]
      ]_vars

\* one value in mode off: the set points of the record stay and a push is sent
C8_Witness ==
    /\ pc = "returned"
    /\ op.name = "set_points"
    /\ Val(op.arg) = [type |-> "number", value |-> <<720>>]
    /\ self.op_mode = <<0>>
    /\ self.heat_to = <<200>>
    /\ self.cool_to = <<240>>
    /\ Len(reqs) = 1
    /\ IsPush(reqs[1])

-----------------------------------------------------------------------------
(* C9 *)

\* C9 as stated: a temperature_units set to 0 or 1 on a client that follows the
\* thermostat's units makes the units fixed and issues one GetTStatInfoList
\* request with the new units, and nothing else.
C9_UnitsSwitchAlwaysPulls ==
    [][ ( /\ pc = "ready"
          /\ op'.name = "temperature_units"
          /\ Val(op'.arg) \in {0, 1}
          /\ self.use_tstat_units ) =>
        /\ ~self'.use_tstat_units
        /\ Len(reqs') = 1
        /\ IsPull(reqs'[1])
        /\ reqs'[1].TempUnit = Val(op'.arg)
      ]_vars

\* C9 (amended): a temperature_units set to 0 or 1 on a client that follows
\* the thermostat's units makes the units fixed at the value set; on a resolved
\* identity it issues one GetTStatInfoList request with the new units and
\* nothing else, on an unresolved identity it issues no request.
C9_UnitsSwitchPullsWhenConnected ==
    [][ ( /\ pc = "ready"
          /\ op'.name = "temperature_units"
          /\ Val(op'.arg) \in {0, 1}
          /\ self.use_tstat_units ) =>
        /\ ~self'.use_tstat_units
        /\ self'.temperature_units = Val(op'.arg)
        /\ connected(self) =>
              /\ Len(reqs') = 1
              /\ IsPull(reqs'[1])
              /\ reqs'[1].gatewaysn = Val(self.serial_number)
              /\ reqs'[1].TempUnit = Val(op'.arg)
        /\ ~connected(self) => reqs' = <<>>
      ]_vars

\* Celsius was set and the pull, sent with TempUnit 1, loaded a record whose
\* own preference is Fahrenheit
C9_Witness ==
    /\ pc = "returned"
    /\ op.name = "temperature_units"
    /\ op.arg = <<1>>
    /\ Len(reqs) = 1
    /\ IsPull(reqs[1])
    /\ reqs[1].TempUnit = 1
    /\ reqs[1].resp.status_code = HTTP_OK
    /\ InRange(reqs[1].resp.tStatInfo, self.zone)
    /\ ItemAt(reqs[1].resp.tStatInfo, self.zone).Pref_Temp_Units = 0
    /\ self.temperature_units = 1
    /\ ~self.use_tstat_units

-----------------------------------------------------------------------------
(* C10 *)

\* C10: when the push of an op_mode, fan_mode or set_points setter is not
\* answered with 200, the object keeps the value just assigned, the push is the
\* only request of the call, and the call returns without an exception.
C10_FailedPushKeepsMutation ==
    [][ ( /\ pc = "ready"
          /\ connected(self)
          /\ op'.name \in {"op_mode", "fan_mode", "set_points"}
          /\ Len(reqs') >= 1
          /\ reqs'[1].resp.status_code # HTTP_OK ) =>
        /\ Len(reqs') = 1
        /\ IsPush(reqs'[1])
        /\ ret'.raised = None
        /\ op'.name = "op_mode" => self' = [self EXCEPT !.op_mode = op'.arg]
        /\ op'.name = "fan_mode" => self' = [self EXCEPT !.fan_mode = op'.arg]
        /\ (op'.name = "set_points" /\ Len(Val(op'.arg).value) = 2) =>
              LET a == Val(op'.arg).value[1]
                  b == Val(op'.arg).value[2]
              IN  self' = [self EXCEPT !.heat_to = <<IF a <= b THEN a ELSE b>>,
                                       !.cool_to = <<IF a <= b THEN b ELSE a>>]
        /\ (op'.name = "set_points" /\ Len(Val(op'.arg).value) = 1) =>
              LET v == Val(op'.arg).value[1]
              IN  /\ self.op_mode = <<2>> => self'.cool_to = <<v>>
                  /\ self.op_mode \in {<<1>>, <<4>>} => self'.heat_to = <<v>>
      ]_vars

\* heat or cool (3) was set, which no record of the service carries, and the
\* push was answered with 500
C10_Witness ==
    /\ pc = "returned"
    /\ op.name = "op_mode"
    /\ op.arg = <<3>>
    /\ Len(reqs) = 1
    /\ IsPush(reqs[1])
    /\ reqs[1].resp.status_code = 500
    /\ self.op_mode = <<3>>
    /\ self.state # None
    /\ logged = <<[level |-> "error", msg |-> "Thermostat cloud service not responding."]>>

-----------------------------------------------------------------------------
(* C11 *)

\* the step loaded a record: its last request is a GetTStatInfoList answered
\* with 200
PulledRecord ==
    /\ pc \in {"pull_status_initial", "pull_status_units", "ready"}
    /\ Len(reqs') >= 1
    /\ Len(reqs') > (IF pc = "ready" THEN 0 ELSE Len(reqs))
    /\ IsPull(reqs'[Len(reqs')])
    /\ reqs'[Len(reqs')].resp.status_code = HTTP_OK

\* C11: an away_mode set leaves the whole object as it was, away_mode included,
\* whatever the response; on a resolved identity it issues one SetAwayModeNew
\* request carrying the value and no SetTStatInfo, otherwise no request.  The
\* away_mode attribute changes only in a step that pulled a record.
C11_AwayModeBypassesSnapshot ==
    [][ /\ (pc = "ready" /\ op'.name = "away_mode") =>
              /\ self' = self
              /\ connected(self) =>
                    reqs' = <<[url |-> "SetAwayModeNew",
                               gatewaysn |-> Val(self.serial_number),
                               awaymode |-> Val(op'.arg),
                               resp |-> reqs'[1].resp]>>
              /\ ~connected(self) => reqs' = <<>>
        /\ self'.away_mode # self.away_mode => PulledRecord
      ]_vars

\* away mode 1 was sent and answered with 200; the object still says 0
C11_Witness ==
    /\ pc = "returned"
    /\ op.name = "away_mode"
    /\ op.arg = <<1>>
    /\ Len(reqs) = 1
    /\ reqs[1].url = "SetAwayModeNew"
    /\ reqs[1].awaymode = 1
    /\ reqs[1].resp.status_code = HTTP_OK
    /\ self.away_mode = <<0>>

-----------------------------------------------------------------------------
(* C12 *)

\* C12 as stated: once the initial pull was answered with an empty zone list,
\* the identity is unresolved and the client is not connected.
C12_NoZonesDisconnects ==
    ( /\ op.name = "__init__"
      /\ Len(reqs) >= 2
      /\ reqs[2].resp.status_code = HTTP_OK
      /\ reqs[2].resp.tStatInfo = <<>> ) =>
        ~connected(self)

\* C12 (amended): when the initial pull is answered with an empty zone list,
\* the zone index becomes 0, a warning and the error "No Zones Found." are
\* logged, and nothing else of the object changes: the serial number stays
\* resolved and the client stays connected.
C12_NoZonesStaysConnected ==
    [][ ( /\ pc = "pull_status_initial"
          /\ connected(self)
          /\ reqs'[Len(reqs')].resp.status_code = HTTP_OK
          /\ reqs'[Len(reqs')].resp.tStatInfo = <<>> ) =>
        /\ self' = [self EXCEPT !.zone = 0]
        /\ connected(self')
        /\ Len(logged') >= 2
        /\ logged'[Len(logged') - 1].level = "warning"
        /\ logged'[Len(logged')] = [level |-> "error", msg |-> "No Zones Found."]
      ]_vars

\* zone 1 was asked for, the service listed no zone, the client is connected
C12_Witness ==
    /\ op.name = "__init__"
    /\ Args.zone = 1
    /\ Len(reqs) = 2
    /\ reqs[2].resp.status_code = HTTP_OK
    /\ reqs[2].resp.tStatInfo = <<>>
    /\ self.zone = 0
    /\ self.serial_number = <<"SN1">>
    /\ self.state = None

-----------------------------------------------------------------------------
(* C13 *)

\* the initial pull selected a record of the list: the one at the zone index,
\* or the first one when the index is out of range
InitialSelects(list, zone) == list # <<>>
InitialRecord(list, zone) == IF InRange(list, zone) THEN ItemAt(list, zone) ELSE list[1]

\* C13: the requests of the constructor, in order.  The first is the
\* GetSystemsInfo request.  On a resolved identity with units that follow the
\* thermostat, two GetTStatInfoList requests come next: the first with
\* TempUnit 0, the second with the Pref_Temp_Units of the record the first one
\* selected (with 0 again when it selected none).  With units given as 0 or 1,
\* one GetTStatInfoList request comes next, with TempUnit the units given.  On
\* an unresolved identity nothing comes next.
C13_ConstructorRequests ==
    (pc = "returned" /\ op.name = "__init__") =>
        /\ Len(reqs) >= 1
        /\ reqs[1].url = "GetSystemsInfo"
        /\ ~connected(self) => Len(reqs) = 1
        /\ (connected(self) /\ Args.units \in {0, 1}) =>
              /\ Len(reqs) = 2
              /\ IsPull(reqs[2])
              /\ reqs[2].TempUnit = Args.units
        /\ (connected(self) /\ Args.units \notin {0, 1}) =>
              /\ Len(reqs) = 3
              /\ IsPull(reqs[2])
              /\ IsPull(reqs[3])
              /\ reqs[2].TempUnit = 0
              /\ LET first == reqs[2].resp
                 IN  IF /\ first.status_code = HTTP_OK
                        /\ InitialSelects(first.tStatInfo, Args.zone)
                     THEN reqs[3].TempUnit =
                            InitialRecord(first.tStatInfo, Args.zone).Pref_Temp_Units \div 10
                     ELSE reqs[3].TempUnit = 0

\* the first pull, sent with TempUnit 0, found a thermostat set to Celsius and
\* the second pull was sent with TempUnit 1
C13_Witness ==
    /\ pc = "returned"
    /\ op.name = "__init__"
    /\ Args.units = 9
    /\ Len(reqs) = 3
    /\ reqs[2].TempUnit = 0
    /\ reqs[2].resp.status_code = HTTP_OK
    /\ reqs[3].TempUnit = 1

-----------------------------------------------------------------------------
(* C14 *)

\* C14: once the constructor has returned, no step changes the serial number,
\* the system index, the zone index or connected, and no call issues a
\* GetSystemsInfo request.
C14_IdentityFixed ==
    [][ (pc \in {"ready", "returned"}) =>
        /\ self'.serial_number = self.serial_number
        /\ self'.system = self.system
        /\ self'.zone = self.zone
        /\ connected(self') = connected(self)
        /\ pc = "ready" => (\A i \in DOMAIN reqs' : reqs'[i].url # "GetSystemsInfo")
      ]_vars

\* an export whose pull found one record where the zone index is 1
C14_Witness ==
    /\ pc = "returned"
    /\ op.name = "get_json"
    /\ Len(reqs) = 1
    /\ reqs[1].resp.status_code = HTTP_OK
    /\ Len(reqs[1].resp.tStatInfo) = 1
    /\ self.zone = 1
    /\ self.system = 1
    /\ self.serial_number = <<"SN2">>

-----------------------------------------------------------------------------
(* C15 *)

\* C15: a pull_status, the constructor's or the caller's, that is not answered
\* with 200 leaves the whole object as it was: snapshot, units and zone index.
\* An initial pull that is not answered with 200 does not set the zone index
\* to 0.
C15_FailedPullChangesNothing ==
    [][ ( /\ connected(self)
          /\ \/ pc \in {"pull_status_initial", "pull_status_units"}
             \/ pc = "ready" /\ op'.name \in {"pull_status", "get_json"}
          /\ reqs'[Len(reqs')].resp.status_code # HTTP_OK ) =>
        /\ IsPull(reqs'[Len(reqs')])
        /\ self' = self
        /\ logged'[Len(logged')] =
              [level |-> "error", msg |-> "Thermostat cloud service not responding."]
      ]_vars

\* zone 1 was asked for and the initial pull was answered with 500: the zone
\* index is still 1
C15_Witness ==
    /\ op.name = "__init__"
    /\ Args.zone = 1
    /\ Len(reqs) = 2
    /\ IsPull(reqs[2])
    /\ reqs[2].resp.status_code = 500
    /\ self.zone = 1
    /\ connected(self)

-----------------------------------------------------------------------------
(* C16 *)

\* C16: the data of the SetTStatInfo request of an op_mode, fan_mode or
\* set_points call are the attributes of the object after the assignment: the
\* assigned attribute with its new value, the others as they were before the
\* call, the units in use, the zone index in use and the serial number.
C16_PushPayload ==
    [][ ( /\ pc = "ready"
          /\ connected(self)
          /\ op'.name \in {"op_mode", "fan_mode", "set_points"} ) =>
        /\ Len(reqs') = 1
        /\ IsPush(reqs'[1])
        /\ reqs'[1].data =
              [Cool_Set_Point |-> self'.cool_to,
               Heat_Set_Point |-> self'.heat_to,
               Fan_Mode |-> IF op'.name = "fan_mode" THEN op'.arg ELSE self.fan_mode,
               Operation_Mode |-> IF op'.name = "op_mode" THEN op'.arg ELSE self.op_mode,
               Pref_Temp_Units |-> self.temperature_units,
               Zone_Number |-> self.zone,
               GatewaySN |-> Val(self.serial_number)]
        /\ op'.name # "set_points" =>
              /\ self'.cool_to = self.cool_to
              /\ self'.heat_to = self.heat_to
        /\ (op'.name = "set_points" /\ Len(Val(op'.arg).value) = 2) =>
              LET a == Val(op'.arg).value[1]
                  b == Val(op'.arg).value[2]
              IN  /\ reqs'[1].data.Heat_Set_Point = <<IF a <= b THEN a ELSE b>>
                  /\ reqs'[1].data.Cool_Set_Point = <<IF a <= b THEN b ELSE a>>
      ]_vars

\* a fan mode pushed for zone 1 of the second system, in Celsius by override,
\* with the mode and set points of the Fahrenheit record
C16_Witness ==
    /\ pc = "returned"
    /\ op.name = "fan_mode"
    /\ op.arg = <<2>>
    /\ ~self.use_tstat_units
    /\ Len(reqs) = 1
    /\ reqs[1].data =
          [Cool_Set_Point |-> <<720>>, Heat_Set_Point |-> <<650>>, Fan_Mode |-> <<2>>,
           Operation_Mode |-> <<1>>, Pref_Temp_Units |-> 1, Zone_Number |-> 1,
           GatewaySN |-> "SN2"]

-----------------------------------------------------------------------------
(* C17 *)

\* the record a pull selects from the list of its response, if any
PullSelects(list, zone, initial) == InRange(list, zone) \/ (initial /\ list # <<>>)
PullRecord(list, zone) == IF InRange(list, zone) THEN ItemAt(list, zone) ELSE list[1]

\* C17: a step that pulled and selected a record makes the snapshot that
\* record, and makes the units the record's Pref_Temp_Units only while the
\* client follows the thermostat's units.  A client with fixed units never
\* follows the thermostat again, and its units change only by a
\* temperature_units set to 0 or 1, to the value set; a client built with
\* units 0 or 1 starts with fixed units of that value.
C17_UnitsOverrideIsKept ==
    [][ /\ ( /\ PulledRecord
             /\ PullSelects(reqs'[Len(reqs')].resp.tStatInfo, self.zone,
                            pc = "pull_status_initial") ) =>
              LET rec == PullRecord(reqs'[Len(reqs')].resp.tStatInfo, self.zone)
              IN  /\ Loaded(self', rec)
                  /\ self'.use_tstat_units =>
                        self'.temperature_units = rec.Pref_Temp_Units \div 10
        /\ ~self.use_tstat_units =>
              /\ ~self'.use_tstat_units
              /\ \/ self'.temperature_units = self.temperature_units
                 \/ /\ pc = "ready"
                    /\ op'.name = "temperature_units"
                    /\ Val(op'.arg) \in {0, 1}
        /\ ( /\ pc = "ready"
             /\ op'.name = "temperature_units"
             /\ Val(op'.arg) \in {0, 1} ) =>
              /\ ~self'.use_tstat_units
              /\ self'.temperature_units = Val(op'.arg)
        /\ (pc = "get_serial_number" /\ Args.units \in {0, 1}) =>
              /\ ~self.use_tstat_units
              /\ self.temperature_units = Args.units
      ]_vars

\* a client with units fixed at Celsius has loaded a record whose
\* Pref_Temp_Units is Fahrenheit
C17_Witness ==
    /\ pc = "returned"
    /\ op.name = "pull_status"
    /\ Len(reqs) = 1
    /\ reqs[1].resp.status_code = HTTP_OK
    /\ InRange(reqs[1].resp.tStatInfo, self.zone)
    /\ ItemAt(reqs[1].resp.tStatInfo, self.zone).Pref_Temp_Units = 0
    /\ Loaded(self, ItemAt(reqs[1].resp.tStatInfo, self.zone))
    /\ ~self.use_tstat_units
    /\ self.temperature_units = 1
    /\ reqs[1].TempUnit = 1

-----------------------------------------------------------------------------
(* C18 *)

\* the set points of a SetTStatInfo request are those of the object s
PushCarriesSetPoints(rs, s) ==
    /\ Len(rs) = 1
    /\ IsPush(rs[1])
    /\ rs[1].data.Heat_Set_Point = s.heat_to
    /\ rs[1].data.Cool_Set_Point = s.cool_to

\* C18: a single value given to set_points in mode 1 or 4 that is above
\* cool_to becomes heat_to, and in mode 2 a single value below heat_to becomes
\* cool_to; the other set point stays, so heat_to is above cool_to after the
\* call, and with a serial number that pair is the one in the SetTStatInfo
\* request.
C18_SingleValueInverts ==
    [][ ( /\ pc = "ready"
          /\ op'.name = "set_points"
          /\ Len(Val(op'.arg).value) = 1 ) =>
        LET v == Val(op'.arg).value[1]
        IN  /\ ( /\ self.op_mode \in {<<1>>, <<4>>}
                 /\ self.cool_to # None
                 /\ v > Val(self.cool_to) ) =>
                  /\ self' = [self EXCEPT !.heat_to = <<v>>]
                  /\ Val(self'.heat_to) > Val(self'.cool_to)
                  /\ connected(self) => PushCarriesSetPoints(reqs', self')
            /\ ( /\ self.op_mode = <<2>>
                 /\ self.heat_to # None
                 /\ v < Val(self.heat_to) ) =>
                  /\ self' = [self EXCEPT !.cool_to = <<v>>]
                  /\ Val(self'.heat_to) > Val(self'.cool_to)
                  /\ connected(self) => PushCarriesSetPoints(reqs', self')
      ]_vars

\* in cool only mode a single 65.0 was set under a heat_to of 72.0 and pushed
C18_Witness ==
    /\ pc = "returned"
    /\ op.name = "set_points"
    /\ Val(op.arg).value = <<650>>
    /\ self.op_mode = <<2>>
    /\ self.heat_to = <<720>>
    /\ self.cool_to = <<650>>
    /\ Len(reqs) = 1
    /\ IsPush(reqs[1])
    /\ reqs[1].data.Heat_Set_Point = <<720>>
    /\ reqs[1].data.Cool_Set_Point = <<650>>

-----------------------------------------------------------------------------
(* C19 *)

\* C19: a temperature_units set to a value other than 0 and 1 leaves the
\* object as it is, units, use_tstat_units and snapshot included, and sends no
\* request.
C19_OtherUnitsIgnored ==
    [][ ( /\ pc = "ready"
          /\ op'.name = "temperature_units"
          /\ Val(op'.arg) \notin {0, 1} ) =>
        /\ self' = self
        /\ reqs' = <<>>
        /\ logged' = <<>>
      ]_vars

\* temperature_units was set to 9 on a connected client that follows the
\* thermostat's units and holds a snapshot
C19_Witness ==
    /\ pc = "returned"
    /\ op.name = "temperature_units"
    /\ op.arg = <<9>>
    /\ connected(self)
    /\ self.use_tstat_units
    /\ self.state # None
    /\ reqs = <<>>

-----------------------------------------------------------------------------
(* C20 *)

\* C20: on a client without a serial number a call sends no request and the
\* client stays without one; op_mode and fan_mode store the value given,
\* set_points stores by the rule of the setter, temperature_units stores 0 or 1
\* and fixes the units, and pull_status, get_json and away_mode leave the
\* object as it is, so nothing written by the caller is overwritten.
C20_UnresolvedStillMutates ==
    [][ (pc = "ready" /\ ~connected(self)) =>
        /\ reqs' = <<>>
        /\ ~connected(self')
        /\ op'.name = "op_mode" => self' = [self EXCEPT !.op_mode = op'.arg]
        /\ op'.name = "fan_mode" => self' = [self EXCEPT !.fan_mode = op'.arg]
        /\ op'.name = "set_points" =>
              LET arg == Val(op'.arg)
              IN  IF Len(arg.value) = 2
                  THEN self' = [self EXCEPT
                                   !.heat_to = <<IF arg.value[1] <= arg.value[2]
                                                 THEN arg.value[1] ELSE arg.value[2]>>,
                                   !.cool_to = <<IF arg.value[1] <= arg.value[2]
                                                 THEN arg.value[2] ELSE arg.value[1]>>]
                  ELSE IF self.op_mode = <<2>>
                       THEN self' = [self EXCEPT !.cool_to = <<arg.value[1]>>]
                       ELSE IF self.op_mode \in {<<1>>, <<4>>}
                            THEN self' = [self EXCEPT !.heat_to = <<arg.value[1]>>]
                            ELSE self' = self
        /\ op'.name = "temperature_units" =>
              IF Val(op'.arg) \in {0, 1}
              THEN self' = [self EXCEPT !.temperature_units = Val(op'.arg),
                                        !.use_tstat_units = FALSE]
              ELSE self' = self
        /\ op'.name \in {"pull_status", "get_json", "away_mode"} => self' = self
      ]_vars

\* a client without a serial number and without a snapshot whose op_mode was
\* set to 1 and whose heat_to was then set to 72.0, with no request sent
C20_Witness ==
    /\ pc = "returned"
    /\ ~connected(self)
    /\ op.name = "set_points"
    /\ Len(Val(op.arg).value) = 1
    /\ self.op_mode = <<1>>
    /\ self.heat_to = <<720>>
    /\ self.cool_to = None
    /\ self.state = None
    /\ reqs = <<>>

=============================================================================
